---- MODULE Spec2Model ----
(***************************************************************************)
(* Model of the amnesia plugin (src/plugin.py): the command handler        *)
(* AmnesiaCommand with its scoped erasures and its two-step confirmation   *)
(* of the full erasure, and the event handler AmnesiaConfirmHandler that   *)
(* listens for a bare confirmation message.                                *)
(*                                                                         *)
(* Handlers are asyncio coroutines: the code between two awaits runs       *)
(* without interleaving, so each action below is one such stretch.         *)
(* The literal confirmation token of the source is written "confirm".      *)
(***************************************************************************)
EXTENDS Integers, FiniteSets, Sequences, Bags, TLC

\* ------------------------------------------------------------ constants
CONFIRM_TIMEOUT == 30
CLEANUP_AGE == 300
DEFAULT_COUNT == 10
DEFAULT_HOURS == 24
SecondsPerHour == 3600
LATEST_COUNT == 2

\* ------------------------------------------------------------ bounds
MaxTicks == 2
MaxRequests == 2
MaxRows == 3
MaxTasks == 1
MaxArg == 2

\* ------------------------------------------------------------ domains
Users == {"admin1", "admin2", "guest"}
permission == {"admin1", "admin2"}
NoChat == "nochat"
Chats == {"c1", "c2"}
MsgIds == {"m1", "m2"}
Texts == {"confirm", "other"}
\* parts = command_text.split(): the command word, the subcommand and an
\* optional third token (a number already read as one, never negative here,
\* or a word).
NumberParts(sub) == {<<"cmd", sub>>} \cup {<<"cmd", sub, n>> : n \in 0..MaxArg}
TotalParts == {<<"cmd", "total">>} \cup {<<"cmd", "total", w>> : w \in Texts}
TickSteps == {1, CONFIRM_TIMEOUT, CLEANUP_AGE}
StartTime == 2 * DEFAULT_HOURS * SecondsPerHour
Collections == {"chat_streams", "person_info", "group_info", "expression",
                "action_records", "chat_history", "thinking_back", "jargon"}
HAS_GROUP_INFO == TRUE

VARIABLES
    clock,                  \* time.time()
    ticks,                  \* how often the clock has moved
    pending_confirmations,  \* AmnesiaCommand._pending_confirmations
    Messages,               \* the rows of the Messages collection
    tables,                 \* the row count of every other collection
    tasks,                  \* coroutines asleep before their deferred deletes
    reply,                  \* what the latest handler answered
    seen,                   \* the entry the latest handler found for its requester
    created,                \* entries created so far
    erasures,               \* full erasures started so far
    faults,                 \* the collections whose statements raise at present
    group_table,            \* db.table_exists(GroupInfo)
    local_store,            \* data/local_store.json
    learnt                  \* entries of the existing learnt_* directories

\* what the host keeps beside the collections
host == <<faults, group_table, local_store, learnt>>

vars == <<clock, ticks, pending_confirmations, Messages, tables, tasks,
          reply, seen, created, erasures, host>>

\* ------------------------------------------------------------ helpers
Min(a, b) == IF a < b THEN a ELSE b
Max(a, b) == IF a > b THEN a ELSE b

\* send_text: what is sent, the number it states, the conversation it goes to
Reply(kind, n, chat_id) == [kind |-> kind, n |-> n, chat_id |-> chat_id]

\* pending = table.get(user_id), with elapsed = time.time() - pending["timestamp"]
NotSeen == [present |-> FALSE, elapsed |-> 0, chat_id |-> NoChat]

Lookup(table, user_id) ==
    IF user_id \in DOMAIN table
    THEN [present |-> TRUE, elapsed |-> clock - table[user_id].timestamp,
          chat_id |-> table[user_id].chat_id]
    ELSE NotSeen

\* mutant: the conversation is not part of the predicate
RowsOf_All(chat_id) == Messages

RowsOf(chat_id) == {r \in Messages : r.chat_id = chat_id}

\* mutant: the limit is one too large
RecentSelections_OneMore(chat_id, count) ==
    {S \in SUBSET RowsOf(chat_id) :
        /\ Cardinality(S) = Min(count + 1, Cardinality(RowsOf(chat_id)))
        /\ \A r \in S : \A q \in RowsOf(chat_id) \ S : r.time >= q.time}

\* select().where(chat_id == c).order_by(time.desc()).limit(count): the
\* store breaks ties between equal timestamps in an order of its own.
RecentSelections(chat_id, count) ==
    {S \in SUBSET RowsOf(chat_id) :
        /\ Cardinality(S) = Min(count, Cardinality(RowsOf(chat_id)))
        /\ \A r \in S : \A q \in RowsOf(chat_id) \ S : r.time >= q.time}

\* delete().where(message_id.in_(ids)): no conversation in the predicate.
RowsWithIds(ids) == {r \in Messages : r.message_id \in ids}

IdsOf(S) == {r.message_id : r \in S}

TaskCount == BagCardinality(tasks)

Task(kind, chat_id) == [kind |-> kind, chat_id |-> chat_id]

\* asyncio.create_task(...)
Spawn(bag, task) == bag (+) SetToBag({task})

Finish(bag, task) == bag (-) SetToBag({task})

\* mutant: the allow-list is not consulted
Permitted_Everyone(user_id) == TRUE

Permitted(user_id) == user_id \in permission

\* mutant: the entry is not deleted
Without_Keep(table, user_id) == table

\* del table[user_id]
Without(table, user_id) == [u \in DOMAIN table \ {user_id} |-> table[u]]

\* table[user_id] = entry
With(table, user_id, entry) ==
    [u \in DOMAIN table \cup {user_id} |-> IF u = user_id THEN entry ELSE table[u]]

\* mutant: an entry exactly as old as the retention is swept as well
cleanup_expired_confirmations_Inclusive(table) ==
    [u \in {x \in DOMAIN table : ~(clock - table[x].timestamp >= CLEANUP_AGE)}
        |-> table[u]]

\* mutant: the sweep takes the confirmation timeout for its retention
cleanup_expired_confirmations_Timeout(table) ==
    [u \in {x \in DOMAIN table : ~(clock - table[x].timestamp > CONFIRM_TIMEOUT)}
        |-> table[u]]

\* _cleanup_expired_confirmations
cleanup_expired_confirmations(table) ==
    [u \in {x \in DOMAIN table : ~(clock - table[x].timestamp > CLEANUP_AGE)}
        |-> table[u]]

\* ------------------------------------------------------------ host
\* a statement on collection t raises
Raises(t) == t \in faults

\* the order of the deletes, lines 370-392 and 618-640
DeleteOrder == <<"messages", "chat_streams", "person_info", "group_info",
                 "expression", "action_records", "chat_history",
                 "thinking_back", "jargon">>

Position(t) == CHOOSE i \in 1..Len(DeleteOrder) : DeleteOrder[i] = t

\* lines 375-384: GroupInfo is deleted when the model was imported and the
\* table exists; what the two statements raise is logged as a warning and
\* goes no further
GroupInfoDeleted == HAS_GROUP_INFO /\ group_table /\ ~Raises("group_info")

\* the first delete whose exception leaves the try block (0: none does)
RaisedAt ==
    LET bad == {i \in 1..Len(DeleteOrder) :
                   DeleteOrder[i] # "group_info" /\ Raises(DeleteOrder[i])}
    IN  IF bad = {} THEN 0 ELSE CHOOSE i \in bad : \A j \in bad : i <= j

\* the delete of collection t is reached and removes the rows
Deleted(t) ==
    /\ RaisedAt = 0 \/ Position(t) < RaisedAt
    /\ t = "group_info" => GroupInfoDeleted

\* data/local_store.json: absent, or a JSON object
NoFile == [exists |-> FALSE, data |-> << >>]

File(data) == [exists |-> TRUE, data |-> data]

\* mutant: the old object is updated in place and keeps its other keys
initial_data_Update(old_data) ==
    [k \in {"deploy_time", "mmc_uuid"} \cup DOMAIN old_data |->
        IF k = "deploy_time" THEN clock
        ELSE IF k \in DOMAIN old_data THEN old_data[k]
        ELSE ""]

\* lines 403-410 (649-655)
initial_data(old_data) ==
    [k \in {"deploy_time", "mmc_uuid"} \cup
            ({"last_full_statistics"} \cap DOMAIN old_data) |->
        IF k = "deploy_time" THEN clock
        ELSE IF k \in DOMAIN old_data THEN old_data[k]
        ELSE ""]

\* lines 397-414 (645-659)
ResetStore(store) ==
    IF store.exists THEN File(initial_data(store.data)) ELSE store

\* lines 419-424 (664-669): shutil.rmtree and os.makedirs of every existing
\* subdirectory
ClearLearnt(dirs) == [d \in DOMAIN dirs |-> 0]

\* ------------------------------------------------------------ handshake tests
\* mutant: the confirmation is tested against the retention of the sweep
ConfirmExpired_Retention(entry) == clock - entry.timestamp > CLEANUP_AGE

\* mutant: the age of the entry is not tested
ConfirmExpired_Never(entry) == FALSE

\* line 137-138: elapsed > CONFIRM_TIMEOUT (the listener: line 580)
ConfirmExpired(entry) == clock - entry.timestamp > CONFIRM_TIMEOUT

\* line 167-170: remaining = max(0, CONFIRM_TIMEOUT - elapsed); remaining > 0
Remaining(entry) == Max(0, CONFIRM_TIMEOUT - (clock - entry.timestamp))

\* mutant: a repeat request never finds the entry expired
StillPending_Always(entry) == TRUE

StillPending(entry) == Remaining(entry) > 0

\* mutant: the conversation is not compared
ChatMatches_Any(entry, chat_id) == TRUE

\* line 148 and line 585
ChatMatches(entry, chat_id) == entry.chat_id = chat_id

\* line 183-186
NewEntry(chat_id) == [timestamp |-> clock, chat_id |-> chat_id]

\* ------------------------------------------------------------ full erasure
\* the collections emptied by the deletes of lines 370-392 (615-640)
ErasedCollections == {t \in Collections : Deleted(t)}

SumOver(f, S) ==
    LET RECURSIVE Sum(_)
        Sum(T) == IF T = {} THEN 0
                  ELSE LET x == CHOOSE y \in T : TRUE IN f[x] + Sum(T \ {x})
    IN Sum(S)

\* _forget_total_confirmed and _execute_total_amnesia up to the report: every
\* delete runs in the stretch that consumed the entry.  When none raises
\* out of the try block the local store and the learnt directories are
\* reset, the report is sent and the coroutine sleeps before its first
\* follow-up pass; otherwise the deletes made so far stay and the failure
\* is answered.
TotalErase(table, found, chat_id) ==
    /\ TaskCount < MaxTasks
    /\ erasures' = erasures + 1
    /\ pending_confirmations' = table
    /\ seen' = found
    /\ Messages' = IF Deleted("messages") THEN {} ELSE Messages
    /\ tables' = [t \in Collections |-> IF Deleted(t) THEN 0 ELSE tables[t]]
    /\ IF RaisedAt = 0
       THEN /\ reply' = Reply("total_report",
                              Cardinality(Messages) + SumOver(tables, ErasedCollections),
                              chat_id)
            /\ local_store' = ResetStore(local_store)
            /\ learnt' = ClearLearnt(learnt)
            /\ tasks' = Spawn(tasks, Task("total_first_pass", chat_id))
       ELSE /\ reply' = Reply("total_failed", 0, chat_id)
            /\ UNCHANGED <<local_store, learnt, tasks>>
    /\ UNCHANGED <<clock, ticks, created, faults, group_table>>

\* a handler that only answers (or stays silent) and may adjust the table
Respond(table, found, kind, n, chat_id) ==
    /\ reply' = Reply(kind, n, chat_id)
    /\ seen' = found
    /\ pending_confirmations' = table
    /\ UNCHANGED <<clock, ticks, Messages, tables, tasks, created, erasures, host>>

Answer(kind, n, chat_id) == Respond(pending_confirmations, NotSeen, kind, n, chat_id)

\* ------------------------------------------------------------ AmnesiaCommand
\* _handle_total_amnesia
handle_total_amnesia(user_id, chat_id, parts) ==
    LET swept == cleanup_expired_confirmations(pending_confirmations)
        pending == Lookup(swept, user_id)
        is_confirm == Len(parts) > 2 /\ parts[3] = "confirm"
    IN  IF is_confirm
        THEN IF user_id \notin DOMAIN swept
             THEN Respond(swept, pending, "no_pending", 0, chat_id)
             ELSE IF ConfirmExpired(swept[user_id])
             THEN Respond(Without(swept, user_id), pending, "timed_out", 0, chat_id)
             ELSE IF ~ChatMatches(swept[user_id], chat_id)
             THEN Respond(swept, pending, "wrong_chat", 0, chat_id)
             ELSE TotalErase(Without(swept, user_id), pending, chat_id)
        ELSE IF user_id \in DOMAIN swept /\ StillPending(swept[user_id])
             THEN Respond(swept, pending, "already_pending", Remaining(swept[user_id]), chat_id)
             ELSE /\ created < MaxRequests
                  /\ created' = created + 1
                  /\ reply' = Reply("warning", 0, chat_id)
                  /\ seen' = pending
                  /\ pending_confirmations' =
                        With(Without(swept, user_id), user_id, NewEntry(chat_id))
                  /\ UNCHANGED <<clock, ticks, Messages, tables, tasks, erasures, host>>

\* line 215: Messages.delete().where(Messages.chat_id == chat_id)
AfterAll(chat_id) == Messages \ RowsOf(chat_id)

\* _forget_all
forget_all(chat_id) ==
    LET count == Cardinality(RowsOf(chat_id))
    IN  IF Raises("messages")
        THEN Answer("failed", 0, chat_id)
        ELSE IF count = 0
        THEN Answer("nothing", 0, chat_id)
        ELSE /\ TaskCount < MaxTasks
             /\ Messages' = AfterAll(chat_id)
             /\ reply' = Reply("forgot_all", Cardinality(RowsOf(chat_id)), chat_id)
             /\ seen' = NotSeen
             /\ tasks' = Spawn(tasks, Task("cleanup_all", chat_id))
             /\ UNCHANGED <<clock, ticks, pending_confirmations, tables, created, erasures, host>>

\* line 250-253: Messages.delete().where(Messages.message_id.in_(message_ids))
AfterRecent(recent_messages) == Messages \ RowsWithIds(IdsOf(recent_messages))

\* _forget_recent
forget_recent(chat_id, count) ==
    \E recent_messages \in RecentSelections(chat_id, count) :
        IF Raises("messages")
        THEN Answer("failed", 0, chat_id)
        ELSE IF recent_messages = {}
        THEN Answer("nothing", 0, chat_id)
        ELSE LET doomed == RowsWithIds(IdsOf(recent_messages))
             IN  /\ TaskCount < MaxTasks
                 /\ Messages' = AfterRecent(recent_messages)
                 /\ reply' = Reply("forgot_recent", Cardinality(doomed), chat_id)
                 /\ seen' = NotSeen
                 /\ tasks' = Spawn(tasks, Task("cleanup_latest", chat_id))
                 /\ UNCHANGED <<clock, ticks, pending_confirmations, tables,
                                created, erasures, host>>

\* line 284: (datetime.now() - timedelta(hours=hours)).timestamp()
Threshold(hours) == clock - hours * SecondsPerHour

\* mutant: a row at the threshold counts as older
IsBefore_Inclusive(row, chat_id, threshold_time) ==
    row.chat_id = chat_id /\ row.time <= threshold_time

\* line 290-291
IsBefore(row, chat_id, threshold_time) ==
    row.chat_id = chat_id /\ row.time < threshold_time

\* line 287-293
AfterBefore(chat_id, hours) ==
    {r \in Messages : ~IsBefore(r, chat_id, Threshold(hours))}

\* _forget_before_hours
forget_before_hours(chat_id, hours) ==
    LET doomed == Messages \ AfterBefore(chat_id, hours)
    IN  IF Raises("messages")
        THEN Answer("failed", 0, chat_id)
        ELSE IF Cardinality(doomed) = 0
        THEN Answer("nothing", 0, chat_id)
        ELSE /\ TaskCount < MaxTasks
             /\ Messages' = AfterBefore(chat_id, hours)
             /\ reply' = Reply("forgot_before", Cardinality(doomed), chat_id)
             /\ seen' = NotSeen
             /\ tasks' = Spawn(tasks, Task("cleanup_latest", chat_id))
             /\ UNCHANGED <<clock, ticks, pending_confirmations, tables,
                            created, erasures, host>>

\* execute, lines 61-83: the permission check and the conversation lookup
\* that precede every subcommand
Gate(user_id, chat_id) ==
    IF ~Permitted(user_id) THEN "denied"
    ELSE IF chat_id = NoChat THEN "no_chat"
    ELSE "pass"

\* mutant: the total subcommand is dispatched without the permission check
ExecuteTotal_Ungated(user_id, chat_id, parts) ==
    IF chat_id = NoChat
    THEN Answer("no_chat", 0, NoChat)
    ELSE handle_total_amnesia(user_id, chat_id, parts)

ExecuteTotal(user_id, chat_id, parts) ==
    IF Gate(user_id, chat_id) # "pass"
    THEN Answer(Gate(user_id, chat_id), 0, NoChat)
    ELSE handle_total_amnesia(user_id, chat_id, parts)

ExecuteAll(user_id, chat_id) ==
    IF Gate(user_id, chat_id) # "pass"
    THEN Answer(Gate(user_id, chat_id), 0, NoChat)
    ELSE forget_all(chat_id)

ExecuteRecent(user_id, chat_id, parts) ==
    IF Gate(user_id, chat_id) # "pass"
    THEN Answer(Gate(user_id, chat_id), 0, NoChat)
    ELSE forget_recent(chat_id, IF Len(parts) > 2 THEN parts[3] ELSE DEFAULT_COUNT)

ExecuteBefore(user_id, chat_id, parts) ==
    IF Gate(user_id, chat_id) # "pass"
    THEN Answer(Gate(user_id, chat_id), 0, NoChat)
    ELSE forget_before_hours(chat_id,
                             IF Len(parts) > 2 THEN parts[3] ELSE DEFAULT_HOURS)

\* the bare command and the help subcommand show the help, any other word
\* gets the pointer to it
ExecuteOther(user_id, chat_id, parts) ==
    IF Gate(user_id, chat_id) # "pass"
    THEN Answer(Gate(user_id, chat_id), 0, NoChat)
    ELSE IF Len(parts) = 1 \/ parts[2] = "help"
    THEN Answer("help", 0, chat_id)
    ELSE Answer("unknown", 0, chat_id)

\* ------------------------------------------------------------ deferred tasks
\* _forget_all.delayed_cleanup; what the task raises reaches nobody
DelayedCleanupAll(chat_id) ==
    /\ BagIn(Task("cleanup_all", chat_id), tasks)
    /\ Messages' = IF Raises("messages") THEN Messages ELSE AfterAll(chat_id)
    /\ tasks' = Finish(tasks, Task("cleanup_all", chat_id))
    /\ UNCHANGED <<clock, ticks, pending_confirmations, tables, reply, seen, created, erasures, host>>

\* _forget_recent.delayed_cleanup and _forget_before_hours.delayed_cleanup
DelayedCleanupLatest(chat_id) ==
    /\ BagIn(Task("cleanup_latest", chat_id), tasks)
    /\ \E latest_messages \in RecentSelections(chat_id, LATEST_COUNT) :
          Messages' = IF Raises("messages") THEN Messages
                      ELSE AfterRecent(latest_messages)
    /\ tasks' = Finish(tasks, Task("cleanup_latest", chat_id))
    /\ UNCHANGED <<clock, ticks, pending_confirmations, tables, reply, seen, created, erasures, host>>

\* the two deletes of a follow-up pass, in their order
PassMessages == IF Raises("messages") THEN Messages ELSE {}

PassTables ==
    IF Raises("messages") \/ Raises("chat_streams") THEN tables
    ELSE [tables EXCEPT !["chat_streams"] = 0]

\* mutant: delayed_delete is not started
TotalFirstPass_NoSecond(chat_id) ==
    /\ BagIn(Task("total_first_pass", chat_id), tasks)
    /\ Messages' = PassMessages
    /\ tables' = PassTables
    /\ reply' = reply
    /\ tasks' = Finish(tasks, Task("total_first_pass", chat_id))
    /\ UNCHANGED <<clock, ticks, pending_confirmations, seen, created, erasures, host>>

\* the pass after asyncio.sleep(0.5), still inside the try block of the
\* erasure: it then starts delayed_delete, or answers what it raised
TotalFirstPass(chat_id) ==
    /\ BagIn(Task("total_first_pass", chat_id), tasks)
    /\ Messages' = PassMessages
    /\ tables' = PassTables
    /\ IF Raises("messages") \/ Raises("chat_streams")
       THEN /\ reply' = Reply("total_failed", 0, chat_id)
            /\ tasks' = Finish(tasks, Task("total_first_pass", chat_id))
       ELSE /\ reply' = reply
            /\ tasks' = Spawn(Finish(tasks, Task("total_first_pass", chat_id)),
                              Task("total_second_pass", NoChat))
    /\ UNCHANGED <<clock, ticks, pending_confirmations, seen, created, erasures, host>>

\* delayed_delete, after asyncio.sleep(5); what the task raises reaches nobody
TotalSecondPass ==
    /\ BagIn(Task("total_second_pass", NoChat), tasks)
    /\ Messages' = PassMessages
    /\ tables' = PassTables
    /\ tasks' = Finish(tasks, Task("total_second_pass", NoChat))
    /\ UNCHANGED <<clock, ticks, pending_confirmations, reply, seen, created, erasures, host>>

\* ------------------------------------------------------------ AmnesiaConfirmHandler
\* execute: no permission check, no sweep, no answer when it declines
ConfirmHandler(user_id, chat_id, text) ==
    LET pending == Lookup(pending_confirmations, user_id)
    IN  IF text # "confirm"
        THEN Answer("silent", 0, NoChat)
        ELSE IF user_id \notin DOMAIN pending_confirmations
        THEN Respond(pending_confirmations, pending, "silent", 0, NoChat)
        ELSE IF ConfirmExpired(pending_confirmations[user_id])
        THEN Respond(Without(pending_confirmations, user_id), pending, "silent", 0, NoChat)
        ELSE IF ~ChatMatches(pending_confirmations[user_id], chat_id)
        THEN Respond(pending_confirmations, pending, "silent", 0, NoChat)
        ELSE TotalErase(Without(pending_confirmations, user_id), pending, chat_id)

\* ------------------------------------------------------------ environment
\* time.time() moves on between two handler invocations
Tick(d) ==
    /\ ticks < MaxTicks
    /\ clock' = clock + d
    /\ ticks' = ticks + 1
    /\ UNCHANGED <<pending_confirmations, Messages, tables, tasks, reply, seen, created, erasures, host>>

\* the host stores a message of a conversation (a command, an answer of the
\* plugin, any other message) with the current time; an identifier is
\* new in its conversation
StoreMessage(chat_id, message_id) ==
    /\ Cardinality(Messages) < MaxRows
    /\ message_id \notin IdsOf(RowsOf(chat_id))
    /\ Messages' = Messages \cup
          {[message_id |-> message_id, chat_id |-> chat_id, time |-> clock]}
    /\ UNCHANGED <<clock, ticks, pending_confirmations, tables, tasks, reply, seen, created, erasures, host>>

\* the identifiers under which the host stores the command that started an
\* erasure and the answer sent for it
OwnIds == {"command", "report"}

\* the host stores the triggering command or the answer of an erasure
\* while a deferred task of that erasure sleeps
StoreOwnMessage(chat_id, message_id) ==
    /\ \E task \in BagToSet(tasks) : task.chat_id \in {chat_id, NoChat}
    /\ StoreMessage(chat_id, message_id)

\* a statement on collection t starts to raise (a locked or broken store);
\* one collection at a time
Break(t) ==
    /\ t \notin faults
    /\ faults' = {t}
    /\ UNCHANGED <<clock, ticks, pending_confirmations, Messages, tables, tasks,
                   reply, seen, created, erasures, group_table, local_store, learnt>>

\* the store works again
Mend ==
    /\ faults # {}
    /\ faults' = {}
    /\ UNCHANGED <<clock, ticks, pending_confirmations, Messages, tables, tasks,
                   reply, seen, created, erasures, group_table, local_store, learnt>>

\* ------------------------------------------------------------ specifications
InitTables == [t \in Collections |-> 1]

InitLearnt == [d \in {"learnt_grammar"} |-> 2]

InitMessages ==
    {[message_id |-> "m1", chat_id |-> "c1", time |-> StartTime - SecondsPerHour - 1],
     [message_id |-> "m2", chat_id |-> "c2", time |-> StartTime]}

InitRest ==
    /\ clock = StartTime
    /\ ticks = 0
    /\ pending_confirmations = << >>
    /\ tables = InitTables
    /\ tasks = EmptyBag
    /\ reply = Reply("none", 0, NoChat)
    /\ seen = NotSeen
    /\ created = 0
    /\ erasures = 0
    /\ faults = {}
    /\ group_table = TRUE
    /\ local_store = NoFile
    /\ learnt = InitLearnt

Init == InitRest /\ Messages = InitMessages

\* The confirmation handshake under a moving clock.
Next ==
    \/ \E d \in TickSteps : Tick(d)
    \/ \E u \in Users, c \in Chats \cup {NoChat}, parts \in TotalParts :
          ExecuteTotal(u, c, parts)
    \/ \E u \in Users, c \in Chats, text \in Texts : ConfirmHandler(u, c, text)
    \/ \E c \in Chats : TotalFirstPass(c)
    \/ TotalSecondPass

Spec == Init /\ [][Next]_vars

\* Every command and the listener at one instant, from a small store.
NextAll ==
    \/ \E u \in Users, c \in Chats \cup {NoChat}, parts \in TotalParts :
          ExecuteTotal(u, c, parts)
    \/ \E u \in Users, c \in Chats, text \in Texts : ConfirmHandler(u, c, text)
    \/ \E u \in Users, c \in Chats \cup {NoChat} : ExecuteAll(u, c)
    \/ \E u \in Users, c \in Chats \cup {NoChat}, parts \in NumberParts("recent") :
          ExecuteRecent(u, c, parts)
    \/ \E u \in Users, c \in Chats \cup {NoChat}, parts \in NumberParts("before") :
          ExecuteBefore(u, c, parts)
    \/ \E u \in Users, c \in Chats \cup {NoChat},
          parts \in {<<"cmd">>, <<"cmd", "help">>, <<"cmd", "what">>} :
          ExecuteOther(u, c, parts)
    \/ \E c \in Chats : DelayedCleanupAll(c)
    \/ \E c \in Chats : DelayedCleanupLatest(c)
    \/ \E c \in Chats : TotalFirstPass(c)
    \/ TotalSecondPass

SpecAll == Init /\ [][NextAll]_vars

\* The scoped erasures on every small store: rows of two conversations,
\* timestamps around the one-hour threshold, identifiers distinct within a
\* conversation (the store does not make them distinct across conversations).
RowTimes == {StartTime - SecondsPerHour - 1, StartTime - SecondsPerHour,
             StartTime - SecondsPerHour + 1}

CandidateRows == [message_id : MsgIds, chat_id : Chats, time : RowTimes]

DistinctWithinChat(rows) ==
    \A r, q \in rows :
        (r.chat_id = q.chat_id /\ r.message_id = q.message_id) => r = q

InitErase ==
    /\ InitRest
    /\ Messages \in {S \in SUBSET CandidateRows :
                        Cardinality(S) <= MaxRows /\ DistinctWithinChat(S)}

NextErase ==
    \/ \E u \in Users, c \in Chats : ExecuteAll(u, c)
    \/ \E u \in Users, c \in Chats, parts \in NumberParts("recent") :
          ExecuteRecent(u, c, parts)
    \/ \E u \in Users, c \in Chats, parts \in NumberParts("before") :
          ExecuteBefore(u, c, parts)
    \/ \E c \in Chats : DelayedCleanupAll(c)
    \/ \E c \in Chats : DelayedCleanupLatest(c)
    \/ \E c \in Chats, m \in MsgIds : StoreMessage(c, m)

SpecErase == InitErase /\ [][NextErase]_vars

\* The full erasure on every small host state: the group table present or
\* not, the local store absent or with and without the optional keys, and
\* statements that raise.
Targets == {"messages"} \cup Collections

OldData ==
    [k \in {"deploy_time", "mmc_uuid", "last_full_statistics", "cache"} |->
        IF k = "deploy_time" THEN StartTime - 1 ELSE k]

Restrict(f, S) == [k \in S |-> f[k]]

InitStores ==
    {NoFile,
     File(OldData),
     File(Restrict(OldData, {"deploy_time", "mmc_uuid", "cache"})),
     File(Restrict(OldData, {"deploy_time", "cache"}))}

InitTotal ==
    /\ clock = StartTime
    /\ ticks = 0
    /\ pending_confirmations = << >>
    /\ Messages = InitMessages
    /\ group_table \in BOOLEAN
    /\ tables = [t \in Collections |->
                    IF t = "group_info" /\ ~group_table THEN 0 ELSE 1]
    /\ tasks = EmptyBag
    /\ reply = Reply("none", 0, NoChat)
    /\ seen = NotSeen
    /\ created = 0
    /\ erasures = 0
    /\ faults = {}
    /\ local_store \in InitStores
    /\ learnt = InitLearnt

NextTotal ==
    \/ \E u \in Users, c \in Chats, parts \in TotalParts : ExecuteTotal(u, c, parts)
    \/ \E u \in Users, c \in Chats, text \in Texts : ConfirmHandler(u, c, text)
    \/ \E c \in Chats : TotalFirstPass(c)
    \/ TotalSecondPass
    \/ \E t \in Targets : Break(t)
    \/ Mend

SpecTotal == InitTotal /\ [][NextTotal]_vars

\* The deferred cleanup of erase-recent and erase-before among the messages
\* the host stores meanwhile, under a moving clock.
InitCleanup ==
    /\ InitRest
    /\ Messages \in SUBSET InitMessages

NextCleanup ==
    \/ \E d \in TickSteps : Tick(d)
    \/ \E u \in Users, c \in Chats, parts \in NumberParts("recent") :
          ExecuteRecent(u, c, parts)
    \/ \E u \in Users, c \in Chats, parts \in NumberParts("before") :
          ExecuteBefore(u, c, parts)
    \/ \E c \in Chats : DelayedCleanupLatest(c)
    \/ \E c \in Chats, m \in MsgIds : StoreMessage(c, m)
    \/ \E c \in Chats, m \in OwnIds : StoreOwnMessage(c, m)

SpecCleanup == InitCleanup /\ [][NextCleanup]_vars

\* The full erasure and its two follow-up passes among the messages the
\* host stores meanwhile, no statement raising; a coroutine asleep in
\* asyncio.sleep is resumed by the event loop.
NextPasses ==
    \/ \E u \in Users, c \in Chats, parts \in TotalParts : ExecuteTotal(u, c, parts)
    \/ \E u \in Users, c \in Chats, text \in Texts : ConfirmHandler(u, c, text)
    \/ \E c \in Chats : TotalFirstPass(c)
    \/ TotalSecondPass
    \/ \E c \in Chats, m \in MsgIds : StoreMessage(c, m)
    \/ \E c \in Chats, m \in OwnIds : StoreOwnMessage(c, m)

SpecPasses ==
    /\ Init
    /\ [][NextPasses]_vars
    /\ WF_vars(\E c \in Chats : TotalFirstPass(c))
    /\ WF_vars(TotalSecondPass)

\* Every command, the listener and the deferred tasks under a clock that
\* moves by the confirmation timeout and by the retention of the sweep;
\* the commands that are no total command come from the one conversation
\* that has a row.
InitTable ==
    /\ InitRest
    /\ Messages = {r \in InitMessages : r.chat_id = "c1"}

NextTable ==
    \/ \E d \in {CONFIRM_TIMEOUT, CLEANUP_AGE} : Tick(d)
    \/ \E u \in Users, c \in Chats, parts \in TotalParts : ExecuteTotal(u, c, parts)
    \/ \E u \in Users, c \in Chats, text \in Texts : ConfirmHandler(u, c, text)
    \/ \E u \in Users : ExecuteAll(u, "c1")
    \/ \E u \in Users : ExecuteRecent(u, "c1", <<"cmd", "recent", 1>>)
    \/ \E u \in Users : ExecuteBefore(u, "c1", <<"cmd", "before", 1>>)
    \/ \E u \in Users, parts \in {<<"cmd", "help">>, <<"cmd", "what">>} :
          ExecuteOther(u, "c1", parts)
    \/ \E c \in Chats : DelayedCleanupAll(c)
    \/ \E c \in Chats : DelayedCleanupLatest(c)
    \/ \E c \in Chats : TotalFirstPass(c)
    \/ TotalSecondPass

SpecTable == InitTable /\ [][NextTable]_vars

\* ------------------------------------------------------------ properties
ConfirmParts == <<"cmd", "total", "confirm">>

RequestParts == {<<"cmd", "total">>, <<"cmd", "total", "other">>}

\* a confirmation of user_id from chat_id, through either channel
ConfirmStep(user_id, chat_id) ==
    \/ ExecuteTotal(user_id, chat_id, ConfirmParts)
    \/ ConfirmHandler(user_id, chat_id, "confirm")

\* a total request of user_id from chat_id
RequestStep(user_id, chat_id) ==
    \E parts \in RequestParts : ExecuteTotal(user_id, chat_id, parts)

Has(user_id) == user_id \in DOMAIN pending_confirmations

AgeOf(user_id) == clock - pending_confirmations[user_id].timestamp

StoreUnchanged == UNCHANGED <<Messages, tables, tasks, erasures>>

\* C1: a step starts a full erasure only if it is a confirmation (command
\* or bare message) of a requester who at that moment has a pending entry
\* that is at most CONFIRM_TIMEOUT old and was created in the conversation
\* the confirmation comes from.
C1_ErasureOnlyByValidConfirmation ==
    [][erasures' # erasures =>
        \E u \in Users, c \in Chats :
            /\ Has(u)
            /\ AgeOf(u) <= CONFIRM_TIMEOUT
            /\ pending_confirmations[u].chat_id = c
            /\ ConfirmStep(u, c)]_vars

C1_Witness ==
    /\ erasures = 1
    /\ reply.kind = "total_report"
    /\ seen.present /\ seen.elapsed = CONFIRM_TIMEOUT
    /\ Messages = {}

\* C2: a command of a requester outside the allow-list, whatever the
\* subcommand, changes neither a row of any collection nor the table of
\* pending confirmations.
AnyCommand(user_id, chat_id) ==
    \/ \E parts \in TotalParts : ExecuteTotal(user_id, chat_id, parts)
    \/ ExecuteAll(user_id, chat_id)
    \/ \E parts \in NumberParts("recent") : ExecuteRecent(user_id, chat_id, parts)
    \/ \E parts \in NumberParts("before") : ExecuteBefore(user_id, chat_id, parts)
    \/ \E parts \in {<<"cmd">>, <<"cmd", "help">>, <<"cmd", "what">>} :
          ExecuteOther(user_id, chat_id, parts)

C2_OutsidersChangeNothing ==
    [][\A u \in Users \ permission, c \in Chats \cup {NoChat} :
          AnyCommand(u, c) =>
              UNCHANGED <<Messages, tables, pending_confirmations, tasks, erasures>>]_vars

C2_Witness ==
    /\ reply.kind = "denied"
    /\ DOMAIN pending_confirmations # {}
    /\ Messages # {}

\* C3: a confirmation that starts an erasure starts exactly one and consumes
\* the requester's own entry in the same step, so a further confirmation of
\* that requester finds no entry (until a new request) and starts none: no
\* entry is confirmed twice, in whatever order the two channels are used.
C3_OneConfirmationPerEntry ==
    [][\A u \in Users, c \in Chats :
          (erasures' # erasures /\ ConfirmStep(u, c)) =>
              /\ erasures' = erasures + 1
              /\ Has(u)
              /\ u \notin DOMAIN pending_confirmations']_vars

C3_Witness ==
    /\ erasures = 1
    /\ created = 1
    /\ reply.kind = "no_pending"
    /\ ~seen.present

\* C4: a confirmation that finds the requester's entry older than
\* CONFIRM_TIMEOUT starts no erasure, touches no row and leaves the
\* requester without an entry; a request of a permitted requester without
\* an entry creates one, stamped with the current time and conversation.
C4_LateConfirmationClearsEntry ==
    [][\A u \in Users, c \in Chats :
          /\ (Has(u) /\ AgeOf(u) > CONFIRM_TIMEOUT /\ ConfirmStep(u, c)) =>
                /\ StoreUnchanged
                /\ u \notin DOMAIN pending_confirmations'
                /\ reply'.kind \in {"timed_out", "no_pending", "silent"}
          /\ (Permitted(u) /\ ~Has(u) /\ RequestStep(u, c)) =>
                /\ Has(u)'
                /\ pending_confirmations'[u] = [timestamp |-> clock, chat_id |-> c]
                /\ reply'.kind = "warning"]_vars

C4_Witness ==
    /\ reply.kind = "timed_out"
    /\ seen.present /\ seen.elapsed > CONFIRM_TIMEOUT
    /\ DOMAIN pending_confirmations = {}
    /\ erasures = 0

\* C5: a confirmation from another conversation than the one of the
\* requester's entry, the entry being at most CONFIRM_TIMEOUT old, starts
\* no erasure and leaves the entry as it was; a confirmation from the
\* entry's conversation within that time starts the erasure.
C5_WrongConversationKeepsEntry ==
    [][\A u \in Users, c \in Chats :
          (Has(u) /\ AgeOf(u) <= CONFIRM_TIMEOUT /\ ConfirmStep(u, c)) =>
              IF pending_confirmations[u].chat_id # c
              THEN /\ StoreUnchanged
                   /\ Has(u)'
                   /\ pending_confirmations'[u] = pending_confirmations[u]
                   /\ reply'.kind \in {"wrong_chat", "silent"}
              ELSE /\ erasures' = erasures + 1
                   /\ Messages' = {}
                   /\ u \notin DOMAIN pending_confirmations'
                   /\ reply'.kind = "total_report"]_vars

C5_Witness ==
    /\ reply.kind = "wrong_chat"
    /\ seen.present /\ seen.elapsed <= CONFIRM_TIMEOUT
    /\ DOMAIN pending_confirmations # {}
    /\ erasures = 0

\* C6: a request of a requester whose entry is not expired (as old as a
\* confirmation still accepts: at most CONFIRM_TIMEOUT) is turned down and
\* leaves the entry's timestamp and conversation as they were.
C6_RepeatRequestKeepsEntry ==
    [][\A u \in Users, c \in Chats :
          (Has(u) /\ AgeOf(u) <= CONFIRM_TIMEOUT /\ RequestStep(u, c)) =>
              /\ Has(u)'
              /\ pending_confirmations'[u] = pending_confirmations[u]
              /\ reply'.kind = "already_pending"]_vars

\* what holds of a repeat request: C6_RepeatRequestKeepsEntry for an entry
\* strictly younger than CONFIRM_TIMEOUT
RepeatRequestBelowTimeout ==
    [][\A u \in Users, c \in Chats :
          (Has(u) /\ AgeOf(u) < CONFIRM_TIMEOUT /\ RequestStep(u, c)) =>
              /\ Has(u)'
              /\ pending_confirmations'[u] = pending_confirmations[u]
              /\ reply'.kind = "already_pending"]_vars

\* C7: a request of a requester whose entry is older than CONFIRM_TIMEOUT
\* replaces it by an entry stamped with the current time and the request's
\* conversation and answers with the warning, as a request without entry does.
C7_RequestReplacesExpiredEntry ==
    [][\A u \in Users, c \in Chats :
          (Has(u) /\ AgeOf(u) > CONFIRM_TIMEOUT /\ RequestStep(u, c)) =>
              /\ Has(u)'
              /\ pending_confirmations'[u] = [timestamp |-> clock, chat_id |-> c]
              /\ reply'.kind = "warning"
              /\ created' = created + 1
              /\ StoreUnchanged]_vars

C7_Witness ==
    /\ reply.kind = "warning"
    /\ seen.present /\ seen.elapsed > CONFIRM_TIMEOUT
    /\ \E u \in DOMAIN pending_confirmations :
          pending_confirmations[u].timestamp = clock

\* ------------------------------------------------------------ scoped erasures
In(rows, chat_id) == {r \in rows : r.chat_id = chat_id}

Outside(rows, chat_id) == {r \in rows : r.chat_id # chat_id}

CountOf(parts, default) == IF Len(parts) > 2 THEN parts[3] ELSE default

\* C8: erase-all of a permitted requester for a conversation leaves no row
\* of that conversation and every row of the other conversations, at the
\* immediate delete and at the deferred cleanup, and the answer states the
\* number of rows the immediate delete removed.
C8_EraseAllOnlyThisConversation ==
    [][\A c \in Chats :
          /\ \A u \in permission :
                ExecuteAll(u, c) =>
                    /\ In(Messages', c) = {}
                    /\ Outside(Messages', c) = Outside(Messages, c)
                    /\ reply' = IF In(Messages, c) = {}
                                THEN Reply("nothing", 0, c)
                                ELSE Reply("forgot_all", Cardinality(In(Messages, c)), c)
          /\ DelayedCleanupAll(c) =>
                    /\ In(Messages', c) = {}
                    /\ Outside(Messages', c) = Outside(Messages, c)]_vars

C8_Witness ==
    /\ reply = Reply("forgot_all", 2, "c1")
    /\ In(Messages, "c1") = {}
    /\ Cardinality(In(Messages, "c2")) = 1
    /\ tasks = EmptyBag

\* C9: erase-recent(N) of a permitted requester on a conversation of k rows
\* removes min(N, k) rows, all of that conversation and none older than a
\* row of it that stays, and the answer states that number (nothing to do
\* when no row is selected).
C9_EraseRecentRemovesMin ==
    [][\A c \in Chats, u \in permission, parts \in NumberParts("recent") :
          ExecuteRecent(u, c, parts) =>
              LET n == Min(CountOf(parts, DEFAULT_COUNT), Cardinality(In(Messages, c)))
                  removed == Messages \ Messages'
              IN  /\ Messages' \subseteq Messages
                  /\ Cardinality(removed) = n
                  /\ removed \subseteq In(Messages, c)
                  /\ \A r \in removed : \A q \in In(Messages', c) : r.time >= q.time
                  /\ reply' = IF n = 0 THEN Reply("nothing", 0, c)
                              ELSE Reply("forgot_recent", n, c)]_vars

\* what holds of erase-recent on a store whose message identifiers are
\* pairwise distinct: C9_EraseRecentRemovesMin from such a state
UniqueIds(rows) == \A r, q \in rows : r.message_id = q.message_id => r = q

EraseRecentOnUniqueIds ==
    [][\A c \in Chats, u \in permission, parts \in NumberParts("recent") :
          (UniqueIds(Messages) /\ ExecuteRecent(u, c, parts)) =>
              LET n == Min(CountOf(parts, DEFAULT_COUNT), Cardinality(In(Messages, c)))
                  removed == Messages \ Messages'
              IN  /\ Messages' \subseteq Messages
                  /\ Cardinality(removed) = n
                  /\ removed \subseteq In(Messages, c)
                  /\ \A r \in removed : \A q \in In(Messages', c) : r.time >= q.time
                  /\ reply' = IF n = 0 THEN Reply("nothing", 0, c)
                              ELSE Reply("forgot_recent", n, c)]_vars

\* C10: erase-before(H) of a permitted requester removes the rows of the
\* conversation whose timestamp is strictly less than now - H hours and no
\* other row: a row at the threshold stays.
C10_EraseBeforeStrict ==
    [][\A c \in Chats, u \in permission, parts \in NumberParts("before") :
          ExecuteBefore(u, c, parts) =>
              LET threshold == clock - CountOf(parts, DEFAULT_HOURS) * SecondsPerHour
                  older == {r \in Messages : r.chat_id = c /\ r.time < threshold}
              IN  /\ Messages' = Messages \ older
                  /\ reply' = IF older = {} THEN Reply("nothing", 0, c)
                              ELSE Reply("forgot_before", Cardinality(older), c)]_vars

C10_Witness ==
    /\ reply = Reply("forgot_before", 1, "c1")
    /\ \E r \in Messages : r.chat_id = "c1" /\ r.time = clock - SecondsPerHour
    /\ \E r \in Messages : r.chat_id = "c2" /\ r.time < clock - SecondsPerHour
    /\ BagIn(Task("cleanup_latest", "c1"), tasks)

\* ------------------------------------------------------------ full erasure
\* a step in which a confirmation starts the full erasure
ErasureStep == erasures' # erasures

Emptied(t) == IF t = "messages" THEN Messages' = {} ELSE tables'[t] = 0

Untouched(t) ==
    IF t = "messages" THEN Messages' = Messages ELSE tables'[t] = tables[t]

AllEmpty == Messages = {} /\ \A t \in Collections : tables[t] = 0

\* C11: once a confirmed full erasure has run and reported completion,
\* through either channel, the Messages collection and every other
\* enumerated collection hold no row (the group profiles hold none when
\* their table does not exist).
C11_ErasureEmptiesEveryCollection ==
    [][(ErasureStep /\ reply'.kind = "total_report") => AllEmpty']_vars

\* what holds of the completed erasure: C11_ErasureEmptiesEveryCollection
\* when the delete of the group profiles does not raise
ErasureEmptiesUnlessGroupInfoRaises ==
    [][(ErasureStep /\ reply'.kind = "total_report" /\ ~Raises("group_info")) =>
          AllEmpty']_vars

\* C12: when the delete of one enumerated collection raises during the
\* full erasure, the failure is answered and no completion report is sent,
\* the collections deleted before it stay empty and the failing collection
\* and those after it keep their rows.
C12_FailedDeleteStopsErasure ==
    [][\A t \in Targets :
          (Raises(t) /\ (t = "group_info" => group_table) /\ ErasureStep) =>
              /\ reply'.kind = "total_failed"
              /\ \A b \in Targets : Position(b) < Position(t) => Emptied(b)
              /\ \A a \in Targets : Position(a) >= Position(t) => Untouched(a)]_vars

\* what holds of a raising delete: C12_FailedDeleteStopsErasure for every
\* collection but the group profiles
FailedDeleteOtherThanGroupInfo ==
    [][\A t \in Targets \ {"group_info"} :
          (Raises(t) /\ ErasureStep) =>
              /\ reply'.kind = "total_failed"
              /\ tasks' = tasks
              /\ \A b \in Targets : Position(b) < Position(t) => Emptied(b)
              /\ \A a \in Targets : Position(a) >= Position(t) => Untouched(a)]_vars

\* ------------------------------------------------------------ idempotence
\* The store a scoped erasure would leave if it were applied once more,
\* with the same argument and clock, to the state it has just left is the
\* primed value of the store it computes.
AllAgainSame(chat_id) == (AfterAll(chat_id))' = Messages'

BeforeAgainSame(chat_id, hours) == (AfterBefore(chat_id, hours))' = Messages'

RecentAgainSame(chat_id, count) ==
    \A again \in (RecentSelections(chat_id, count))' :
        (AfterRecent(again))' = Messages'

RecentAgainRemoves(chat_id, count) ==
    \A again \in (RecentSelections(chat_id, count))' :
        /\ (AfterRecent(again))' # Messages'
        /\ (AfterRecent(again))' \subseteq Messages'

\* C13: each scoped erasure (erase-all, erase-recent(N), erase-before(H)) of
\* a permitted requester, applied a second time right after the first to
\* the same conversation with the same argument and clock, leaves the store
\* as the first application left it.  (A command on conversation c answers
\* into c.)
C13_ScopedErasuresIdempotent ==
    [][\A c \in Chats : reply'.chat_id = c =>
          \A u \in permission :
              /\ ExecuteAll(u, c) => AllAgainSame(c)
              /\ \A parts \in NumberParts("recent") :
                    ExecuteRecent(u, c, parts) =>
                        RecentAgainSame(c, CountOf(parts, DEFAULT_COUNT))
              /\ \A parts \in NumberParts("before") :
                    ExecuteBefore(u, c, parts) =>
                        BeforeAgainSame(c, CountOf(parts, DEFAULT_HOURS))]_vars

\* C13 as amended: erase-all and erase-before(H) are idempotent;
\* erase-recent(N) is idempotent exactly when N = 0 or the conversation
\* holds at most N rows, and otherwise its second application removes
\* further rows.  (A command on conversation c answers into c.)
C13_IdempotentButRecent ==
    [][\A c \in Chats : reply'.chat_id = c =>
          \A u \in permission :
              /\ ExecuteAll(u, c) => AllAgainSame(c)
              /\ \A parts \in NumberParts("recent") :
                    ExecuteRecent(u, c, parts) =>
                        LET n == CountOf(parts, DEFAULT_COUNT)
                        IN  IF n = 0 \/ Cardinality(In(Messages, c)) <= n
                            THEN RecentAgainSame(c, n)
                            ELSE RecentAgainRemoves(c, n)
              /\ \A parts \in NumberParts("before") :
                    ExecuteBefore(u, c, parts) =>
                        BeforeAgainSame(c, CountOf(parts, DEFAULT_HOURS))]_vars

\* erase-all has emptied c1 and the next command on c1 found nothing to do
C13_Witness ==
    /\ reply = Reply("nothing", 0, "c1")
    /\ BagIn(Task("cleanup_all", "c1"), tasks)
    /\ In(Messages, "c1") = {}
    /\ Messages # {}

\* ------------------------------------------------------------ the table
\* the confirmation of user_id in this step was turned down
Rejected(user_id, chat_id) ==
    /\ reply'.kind \in {"no_pending", "timed_out", "wrong_chat", "silent"}
    /\ ~ErasureStep
    /\ ConfirmStep(user_id, chat_id)

\* turned down because the entry found is older than CONFIRM_TIMEOUT
RejectedAsExpired(user_id) ==
    \/ reply'.kind = "timed_out"
    \/ reply'.kind = "silent" /\ Has(user_id) /\ AgeOf(user_id) > CONFIRM_TIMEOUT

\* the entries no older than the retention of the sweep
Retained ==
    [x \in {y \in DOMAIN pending_confirmations : AgeOf(y) <= CLEANUP_AGE}
        |-> pending_confirmations[x]]

\* C14: a confirmation turned down for want of an entry or for the wrong
\* conversation leaves the whole table as it was; one turned down because
\* the entry is expired changes the table only by dropping the confirming
\* requester's own entry.
C14_RejectionLeavesTable ==
    [][\A u \in Users, c \in Chats :
          Rejected(u, c) =>
              pending_confirmations' =
                  IF RejectedAsExpired(u)
                  THEN Without(pending_confirmations, u)
                  ELSE pending_confirmations]_vars

\* C14 as amended: a confirmation turned down by the listener leaves the
\* table as it was, but for the confirming requester's own entry when that
\* is expired; one turned down by the command leaves every entry no older
\* than CLEANUP_AGE as it was, drops every older entry (of any requester)
\* and, when it is turned down as expired, the confirming requester's own.
C14_RejectionLeavesRetained ==
    [][\A u \in Users, c \in Chats :
          Rejected(u, c) =>
              pending_confirmations' =
                  IF reply'.kind = "silent"
                  THEN IF RejectedAsExpired(u)
                       THEN Without(pending_confirmations, u)
                       ELSE pending_confirmations
                  ELSE IF RejectedAsExpired(u)
                       THEN Without(Retained, u)
                       ELSE Retained]_vars

\* a confirmation was turned down for want of an entry and the entry of
\* another requester, too old to be confirmed, is still there
C14_Witness ==
    /\ reply.kind = "no_pending"
    /\ ~seen.present
    /\ \E u \in DOMAIN pending_confirmations :
          /\ AgeOf(u) > CONFIRM_TIMEOUT
          /\ AgeOf(u) <= CLEANUP_AGE

\* the reasons a turned-down confirmation of user_id may be given: the check
\* that fails on the entry, an entry older than CLEANUP_AGE counting as
\* absent as well
ReasonsFor(user_id) ==
    IF ~Has(user_id) THEN {"no_pending"}
    ELSE IF AgeOf(user_id) > CLEANUP_AGE THEN {"no_pending", "timed_out"}
    ELSE IF AgeOf(user_id) > CONFIRM_TIMEOUT THEN {"timed_out"}
    ELSE {"wrong_chat"}

\* C16: every confirmation of a permitted requester that fails validation,
\* by the command or by the bare message, is answered in its conversation
\* with a message that names the check that failed.
C16_RejectionNamesReason ==
    [][\A u \in permission, c \in Chats :
          (~ErasureStep /\ ConfirmStep(u, c)) =>
              /\ reply'.kind \in ReasonsFor(u)
              /\ reply'.chat_id = c]_vars

\* what holds of the command channel: C16_RejectionNamesReason for
\* confirmations sent as a command
CommandRejectionNamesReason ==
    [][\A u \in permission, c \in Chats :
          (~ErasureStep /\ ExecuteTotal(u, c, ConfirmParts)) =>
              /\ reply'.kind \in ReasonsFor(u)
              /\ reply'.chat_id = c]_vars

\* ------------------------------------------------------------ local store
Kept(key) ==
    key \in DOMAIN local_store.data =>
        local_store'.data[key] = local_store.data[key]

\* C15: a confirmed full erasure that reports completion and finds the
\* local store file leaves it with the keys deploy_time and mmc_uuid, and
\* last_full_statistics exactly when that key was there before; mmc_uuid
\* and last_full_statistics keep the values they had and no other key stays.
C15_LocalStoreReset ==
    [][(local_store.exists /\ ErasureStep /\ reply'.kind = "total_report") =>
          /\ local_store'.exists
          /\ DOMAIN local_store'.data =
                {"deploy_time", "mmc_uuid"} \cup
                ({"last_full_statistics"} \cap DOMAIN local_store.data)
          /\ Kept("mmc_uuid")
          /\ Kept("last_full_statistics")]_vars

C15_Witness ==
    /\ erasures = 1
    /\ reply.kind = "total_report"
    /\ local_store.exists
    /\ DOMAIN local_store.data = {"deploy_time", "mmc_uuid", "last_full_statistics"}
    /\ local_store.data["deploy_time"] = clock

\* ------------------------------------------------------------ deferred cleanup
\* the stored command and answer of the erasure in conversation chat_id
OwnRows(chat_id) ==
    {r \in Messages : r.chat_id = chat_id /\ r.message_id \in OwnIds}

\* C17: the deferred cleanup of erase-recent and erase-before removes the
\* stored command and answer of its conversation and no other row, whatever
\* the host has stored in the conversation by the time it runs.
C17_CleanupRemovesOnlyOwn ==
    [][\A c \in Chats :
          DelayedCleanupLatest(c) => Messages \ Messages' = OwnRows(c)]_vars

\* what holds of the cleanup: C17_CleanupRemovesOnlyOwn when the command and
\* the answer are stored, every other row of the conversation is older than
\* both and no other conversation uses their identifiers
OwnAreLatest(chat_id) ==
    /\ Cardinality(OwnRows(chat_id)) = LATEST_COUNT
    /\ \A r \in OwnRows(chat_id) :
          \A q \in In(Messages, chat_id) \ OwnRows(chat_id) : r.time > q.time
    /\ \A q \in Outside(Messages, chat_id) : q.message_id \notin OwnIds

CleanupWhenOwnAreLatest ==
    [][\A c \in Chats :
          (OwnAreLatest(c) /\ DelayedCleanupLatest(c)) =>
              Messages \ Messages' = OwnRows(c)]_vars

\* ------------------------------------------------------------ follow-up passes
\* the erasures asleep before their first and before their second pass
FirstPasses ==
    CopiesIn(Task("total_first_pass", "c1"), tasks) +
    CopiesIn(Task("total_first_pass", "c2"), tasks)

SecondPasses == CopiesIn(Task("total_second_pass", NoChat), tasks)

\* C18: when no delete raises, the completion report of a confirmed full
\* erasure is sent with every collection already empty and its first pass
\* waiting; the first pass empties messages and streams and only it starts
\* the second, which empties them again, so that whatever was stored before
\* the second pass (the report and the command among it) is gone after it;
\* and both passes do run.
C18_PassesRunInOrder ==
    /\ [][(ErasureStep /\ reply'.kind = "total_report") =>
              /\ AllEmpty'
              /\ FirstPasses' = FirstPasses + 1
              /\ SecondPasses' = SecondPasses]_vars
    /\ [][\A c \in Chats : TotalFirstPass(c) =>
              /\ Messages' = {} /\ tables'["chat_streams"] = 0
              /\ FirstPasses' = FirstPasses - 1
              /\ SecondPasses' = SecondPasses + 1]_vars
    /\ [][SecondPasses' > SecondPasses => \E c \in Chats : TotalFirstPass(c)]_vars
    /\ [][TotalSecondPass =>
              /\ Messages' = {} /\ tables'["chat_streams"] = 0
              /\ SecondPasses' = SecondPasses - 1
              /\ FirstPasses' = FirstPasses]_vars
    /\ (FirstPasses > 0) ~> (SecondPasses > 0)
    /\ (FirstPasses + SecondPasses > 0) ~> (FirstPasses + SecondPasses = 0)

\* the second pass is due and the command and the report of the erasure
\* are in the store
C18_Witness ==
    /\ erasures = 1
    /\ SecondPasses = 1
    /\ \E c \in Chats : Cardinality(OwnRows(c)) = Cardinality(OwnIds)

\* ------------------------------------------------------------ the sweep
\* a total command (request or confirmation) of a permitted requester that
\* reaches _handle_total_amnesia
TotalCommand(user_id, chat_id) ==
    \E parts \in TotalParts : ExecuteTotal(user_id, chat_id, parts)

\* what a total command of a permitted requester in a known conversation
\* answers
TotalKinds == {"warning", "no_pending", "timed_out", "wrong_chat",
               "already_pending", "total_report", "total_failed"}

EntryLeaves(user_id) ==
    \/ user_id \notin DOMAIN pending_confirmations'
    \/ pending_confirmations'[user_id] # pending_confirmations[user_id]

\* C19: every step that changes the table is a total command or a bare
\* confirmation of a permitted requester, so the scoped erasures, the
\* other commands, other messages and the deferred tasks leave it as it
\* is; an entry leaves it only by its requester's own total
\* command or bare confirmation, or, when it is older than CLEANUP_AGE, by
\* the sweep that starts any permitted requester's total command; and
\* that sweep removes of the other requesters' entries exactly those older
\* than CLEANUP_AGE, so none that is still within CONFIRM_TIMEOUT.
C19_EntriesLeaveByOwnerOrSweep ==
    /\ [][pending_confirmations' # pending_confirmations =>
              \E u \in permission, c \in Chats :
                  TotalCommand(u, c) \/ ConfirmHandler(u, c, "confirm")]_vars
    /\ [][\A u \in Users :
              (Has(u) /\ EntryLeaves(u)) =>
                  \/ \E c \in Chats : TotalCommand(u, c) \/ ConfirmHandler(u, c, "confirm")
                  \/ /\ AgeOf(u) > CLEANUP_AGE
                     /\ \E v \in permission, c \in Chats : TotalCommand(v, c)]_vars
    /\ [][\A u \in DOMAIN pending_confirmations, c \in Chats :
              (reply'.chat_id = c /\ reply'.kind \in TotalKinds) =>
                  \A v \in permission \ {u} :
                      TotalCommand(v, c) =>
                          IF AgeOf(u) > CLEANUP_AGE
                          THEN u \notin DOMAIN pending_confirmations'
                          ELSE /\ Has(u)'
                               /\ pending_confirmations'[u] = pending_confirmations[u]]_vars

\* a request has just run its sweep and the entry of another requester,
\* exactly as old as the retention, is still in the table
C19_Witness ==
    /\ reply.kind = "warning"
    /\ \E u, v \in DOMAIN pending_confirmations :
          /\ u # v
          /\ pending_confirmations[u].timestamp = clock
          /\ AgeOf(v) = CLEANUP_AGE

\* ------------------------------------------------------------ deferred deletes
\* a step of a deferred delete: a follow-up pass of the full erasure or a
\* cleanup task of a scoped erasure
DeferredDelete ==
    \/ TotalSecondPass
    \/ \E c \in Chats :
          TotalFirstPass(c) \/ DelayedCleanupAll(c) \/ DelayedCleanupLatest(c)

\* C20: a deferred delete, raising or not, sends nothing: the last message
\* sent stays the one sent before it, so no failure notice follows the
\* completion report.
C20_DeferredFailureSilent ==
    [][DeferredDelete => reply' = reply]_vars

\* delayed_delete raises into its own task, and a first pass that does not
\* raise sends nothing
SilentUnlessFirstPassRaises ==
    [][(reply' # reply /\ DeferredDelete) =>
          /\ Raises("messages") \/ Raises("chat_streams")
          /\ \E c \in Chats : TotalFirstPass(c)
          /\ ~TotalSecondPass]_vars

\* ------------------------------------------------------------ the two expiry tests
\* a request of user_id from chat_id that finds an entry of user_id
RepeatRequest(user_id, chat_id) ==
    /\ Has(user_id)
    /\ reply'.kind \in {"warning", "already_pending"}
    /\ RequestStep(user_id, chat_id)

\* C21: a repeat request is turned down as already pending exactly when a
\* confirmation at the same instant would not find the entry expired, at
\* every age of the entry, the age CONFIRM_TIMEOUT included.
C21_ExpiryTestsAgree ==
    [][\A u \in permission, c \in Chats :
          RepeatRequest(u, c) =>
              (reply'.kind = "already_pending"
                  <=> ~ConfirmExpired(pending_confirmations[u]))]_vars

\* the two tests agree at every age but CONFIRM_TIMEOUT itself
ExpiryTestsAgreeOffBoundary ==
    [][\A u \in permission, c \in Chats :
          (RepeatRequest(u, c) /\ AgeOf(u) # CONFIRM_TIMEOUT) =>
              (reply'.kind = "already_pending"
                  <=> ~ConfirmExpired(pending_confirmations[u]))]_vars

\* ------------------------------------------------------------ other conversations
\* erase-recent of a permitted requester for chat_id, or the cleanup it
\* (or erase-before) has deferred for chat_id
EraseRecentStep(chat_id) ==
    \/ \E u \in permission, parts \in NumberParts("recent") :
          ExecuteRecent(u, chat_id, parts)
    \/ DelayedCleanupLatest(chat_id)

\* C22: erase-recent for a conversation and its deferred cleanup leave
\* every row of every other conversation in the store, whether or not a
\* message identifier occurs in two conversations.
C22_EraseRecentKeepsOtherChats ==
    [][\A c \in Chats :
          (Outside(Messages', c) # Outside(Messages, c)) => ~EraseRecentStep(c)]_vars

\* what holds: the rows of the other conversations stay when none of them
\* shares its identifier with a row of the conversation
SharedIds(chat_id) ==
    {r \in Outside(Messages, chat_id) :
        \E q \in In(Messages, chat_id) : q.message_id = r.message_id}

EraseRecentWithoutSharedIds ==
    [][\A c \in Chats :
          (Outside(Messages', c) # Outside(Messages, c) /\ SharedIds(c) = {})
              => ~EraseRecentStep(c)]_vars

\* what the steps remove of the other conversations are rows with a shared
\* identifier only
EraseRecentRemovesSharedIdsOnly ==
    [][\A c \in Chats :
          (Outside(Messages', c) # Outside(Messages, c) /\ EraseRecentStep(c))
              => Outside(Messages, c) \ Outside(Messages', c) \subseteq SharedIds(c)]_vars

\* ------------------------------------------------------------ the keys of the table
\* C23: every key of the table is an allow-listed requester in every
\* reachable state, and a full erasure started by a bare confirmation,
\* which the listener accepts without a permission check, is started by an
\* allow-listed requester.
C23_TableKeysPermitted ==
    /\ [](DOMAIN pending_confirmations \subseteq permission)
    /\ [][\A u \in Users, c \in Chats :
              (erasures' # erasures /\ ConfirmHandler(u, c, "confirm"))
                  => u \in permission]_vars

\* a requester outside the allow-list has just been turned away while an
\* entry waits in the table, after an erasure has been carried out
C23_Witness ==
    /\ reply.kind = "denied"
    /\ pending_confirmations # << >>
    /\ erasures > 0

====
